---- MODULE Spec2Model ----
\* Model of the ECS core in src/src/include/ECS/ecs_base.hpp: EntityManager,
\* ComponentArray<T>, ComponentManager, SystemManager and the Coordinator facade.
\* One action per Coordinator call; every action is the whole call, including the
\* calls it forwards to the managers.
EXTENDS Integers, Sequences, FiniteSets, TLC

\* ---------------------------------------------------------------- constants
\* const Entity MAX_ENTITIES = 10000, scaled down.
MAX_ENTITIES == 2
\* const ComponentType MAX_COMPONENTS = 1000, scaled down.
MAX_COMPONENTS == 2

\* Number of Coordinator calls the calling program makes in one run.
MaxCalls == 5
\* A longer run, for the behaviours that need one more call.
LongCalls == MaxCalls + 1

\* Entity arguments a caller can pass: every in-range id and one id that is out
\* of range (Entity is a plain uint32_t, nothing stops a caller passing it).
EntityArgs == 0..MAX_ENTITIES
InRange == 0..(MAX_ENTITIES - 1)
\* The component types (typeid(T).name()) a caller instantiates the templates with.
TypeNames == {"Position", "Velocity"}
\* The system types a caller instantiates registerSystem/setSystemSignature with.
SystemNames == {"Movement", "Render"}
\* Component values a caller passes; T{} (value-initialised array slot) is NoValue.
ComponentValues == {1, 2}
NoValue == 0
AnyValue == ComponentValues \cup {NoValue}
\* using Signature = std::bitset<MAX_COMPONENTS>: the set of bit indices that are set.
Signature == SUBSET (0..(MAX_COMPONENTS - 1))
EmptySignature == {}
\* The resource types a caller instantiates the resource templates with.
ResourceTypes == {"Config", "Mesh"}
\* The T* values a caller stores; a value-initialised T* is nullptr.
Pointers == {"p", "q"}
nullptr == "nullptr"
\* The characters of a key; NUL is the character '\0'.
NUL == "NUL"
\* The keys a caller passes as std::string; a const char* key is one without NUL.
Keys == {<<"m">>, <<"x">>, <<"m", NUL>>, <<"m", NUL, "x">>}

\* ---------------------------------------------------------------- state
VARIABLES
  mAvailableEntities,   \* EntityManager: std::queue<Entity>
  mExistingEntities,    \* EntityManager: std::set<Entity>
  mSignatures,          \* EntityManager: std::array<Signature, MAX_ENTITIES>
  mLivingEntityCount,   \* EntityManager: uint32_t (see Uint32GE)
  mComponentTypes,      \* ComponentManager: type name -> ComponentType
  mComponentArrays,     \* ComponentManager: type name -> ComponentArray<T>
  mNextComponentType,   \* ComponentManager: ComponentType
  mSystems,             \* SystemManager: system name -> System::mEntities
  mSystemSignatures,    \* SystemManager::mSignatures: system name -> Signature
  resourceArrays,       \* ResourceManager: type name -> ResourceArray<T>::data
  call,                 \* the Coordinator call that ran last
  outcome,              \* "ok" (returned), "fatal" (assert/terminate), "crash",
                        \* "thrown" (an exception left the call)
  ret,                  \* {value the last call returned}, {} when it returned none
  errors,               \* number of LOG_ERROR messages the last call produced
  notified,             \* entityRegistered/entityErased calls the last call made
  given,                \* system name -> signature last passed to setSystemSignature
  callsLeft             \* number of Coordinator calls the caller still makes

emVars == <<mAvailableEntities, mExistingEntities, mSignatures, mLivingEntityCount>>
cmVars == <<mComponentTypes, mComponentArrays, mNextComponentType>>
smVars == <<mSystems, mSystemSignatures>>
vars == <<mAvailableEntities, mExistingEntities, mSignatures, mLivingEntityCount,
          mComponentTypes, mComponentArrays, mNextComponentType,
          mSystems, mSystemSignatures, resourceArrays,
          call, outcome, ret, errors, notified, given, callsLeft>>

NoRet == {}
\* The entity field of a call that takes no entity.
NoEntity == MAX_ENTITIES + 1

\* ---------------------------------------------------------------- helpers
\* absl::flat_hash_map operations on a map held as a function.
Put(f, k, v) == [x \in (DOMAIN f) \cup {k} |-> IF x = k THEN v ELSE f[x]]
Erase(f, k) == [x \in (DOMAIN f) \ {k} |-> f[x]]
EmptyMap == [x \in {} |-> 0]

\* mLivingEntityCount is a uint32_t. The model holds the representative c of the
\* value c mod 2^32 with |c| small: -k stands for 2^32 - k, so ++ and -- are +1 and
\* -1 and the unsigned comparison count >= n is the test below.
Uint32GE(c, n) == c < 0 \/ c >= n

\* (signature & systemSignature) == systemSignature on bitsets.
BitAnd(a, b) == a \cap b
Matches(signature, systemSignature) == BitAnd(signature, systemSignature) = systemSignature

Call(name, t, e, v, s) == [name |-> name, t |-> t, e |-> e, v |-> v, s |-> s]

Running == outcome \in {"ok", "thrown"} /\ callsLeft > 0

\* ---------------------------------------------------------------- ComponentArray<T>
\* new ComponentArray<T>() value-initialises the object: mSize is 0, the maps are
\* empty and every slot of mComponentArray holds T{}.
NewComponentArray ==
  [ mComponentArray   |-> [i \in InRange |-> NoValue],
    mEntityToIndexMap |-> EmptyMap,
    mIndexToEntityMap |-> EmptyMap,
    mSize             |-> 0 ]

\* A read of mComponentArray[i]: inside the array the slot, past its end anything.
ReadSlot(a, i) == IF i \in InRange THEN {a.mComponentArray[i]} ELSE AnyValue

\* A write of mComponentArray[i] = v that does not crash: past the end of the
\* array it lands outside the array and leaves the slots as they are.
WriteSlot(arr, i, v) == IF i \in InRange THEN [arr EXCEPT ![i] = v] ELSE arr

\* insertData with the duplicate check overwriting the stored value.
insertData_Overwrite(a, entity, component) ==
  IF entity \in DOMAIN a.mEntityToIndexMap
  THEN [a EXCEPT !.mComponentArray =
          WriteSlot(a.mComponentArray, a.mEntityToIndexMap[entity], component)]
  ELSE LET newIndex == a.mSize IN
       [ mComponentArray   |-> WriteSlot(a.mComponentArray, newIndex, component),
         mEntityToIndexMap |-> Put(a.mEntityToIndexMap, entity, newIndex),
         mIndexToEntityMap |-> Put(a.mIndexToEntityMap, newIndex, entity),
         mSize             |-> a.mSize + 1 ]

insertData(a, entity, component) ==
  IF entity \in DOMAIN a.mEntityToIndexMap
  THEN a
  ELSE LET newIndex == a.mSize IN
       [ mComponentArray   |-> WriteSlot(a.mComponentArray, newIndex, component),
         mEntityToIndexMap |-> Put(a.mEntityToIndexMap, entity, newIndex),
         mIndexToEntityMap |-> Put(a.mIndexToEntityMap, newIndex, entity),
         mSize             |-> a.mSize + 1 ]

\* The number of errors insertData logs.
insertDataErrors(a, entity) ==
  IF entity \in DOMAIN a.mEntityToIndexMap THEN 1 ELSE 0

\* removeData without mEntityToIndexMap.erase(entity).
removeData_NoErase(a, entity, lastValue) ==
  IF entity \notin DOMAIN a.mEntityToIndexMap
  THEN a
  ELSE LET indexOfRemovedEntity == a.mEntityToIndexMap[entity]
           indexOfLastElement == a.mSize - 1
           entityOfLastElement ==
             IF indexOfLastElement \in DOMAIN a.mIndexToEntityMap
             THEN a.mIndexToEntityMap[indexOfLastElement] ELSE 0
           e2i == Put(a.mEntityToIndexMap, entityOfLastElement, indexOfRemovedEntity)
           i2e == Put(a.mIndexToEntityMap, indexOfRemovedEntity, entityOfLastElement)
       IN [ mComponentArray   |-> WriteSlot(a.mComponentArray, indexOfRemovedEntity, lastValue),
            mEntityToIndexMap |-> e2i,
            mIndexToEntityMap |-> Erase(i2e, indexOfLastElement),
            mSize             |-> a.mSize - 1 ]

\* removeData without repointing the maps to the element it moved.
removeData_NoRepoint(a, entity, lastValue) ==
  IF entity \notin DOMAIN a.mEntityToIndexMap
  THEN a
  ELSE LET indexOfRemovedEntity == a.mEntityToIndexMap[entity]
           indexOfLastElement == a.mSize - 1
       IN [ mComponentArray   |-> WriteSlot(a.mComponentArray, indexOfRemovedEntity, lastValue),
            mEntityToIndexMap |-> Erase(a.mEntityToIndexMap, entity),
            mIndexToEntityMap |-> Erase(a.mIndexToEntityMap, indexOfLastElement),
            mSize             |-> a.mSize - 1 ]

\* removeData; lastValue is what the read of mComponentArray[indexOfLastElement]
\* yielded (a member of ReadSlot(a, a.mSize - 1)).
removeData(a, entity, lastValue) ==
  IF entity \notin DOMAIN a.mEntityToIndexMap
  THEN a
  ELSE LET indexOfRemovedEntity == a.mEntityToIndexMap[entity]
           indexOfLastElement == a.mSize - 1
           entityOfLastElement ==
             IF indexOfLastElement \in DOMAIN a.mIndexToEntityMap
             THEN a.mIndexToEntityMap[indexOfLastElement] ELSE 0
           e2i == Put(a.mEntityToIndexMap, entityOfLastElement, indexOfRemovedEntity)
           i2e == Put(a.mIndexToEntityMap, indexOfRemovedEntity, entityOfLastElement)
       IN [ mComponentArray   |-> WriteSlot(a.mComponentArray, indexOfRemovedEntity, lastValue),
            mEntityToIndexMap |-> Erase(e2i, entity),
            mIndexToEntityMap |-> Erase(i2e, indexOfLastElement),
            mSize             |-> a.mSize - 1 ]

removeDataErrors(a, entity) ==
  IF entity \notin DOMAIN a.mEntityToIndexMap THEN 1 ELSE 0

\* The values the read in removeData can yield (one fixed value when removeData
\* returns early and reads nothing).
LastValues(a, entity) ==
  IF entity \in DOMAIN a.mEntityToIndexMap THEN ReadSlot(a, a.mSize - 1) ELSE {NoValue}

\* ComponentArray::entityDestroyed: removeData only when the entity is mapped.
arrayEntityDestroyed(a, entity, lastValue) ==
  IF entity \in DOMAIN a.mEntityToIndexMap THEN removeData(a, entity, lastValue) ELSE a

\* ---------------------------------------------------------------- SystemManager
\* mSignatures[type] inside entitySignatureChanged: operator[] inserts an empty
\* Signature for every registered system that has none yet.
signaturesAfterLookup(systems, sigs) ==
  [s \in DOMAIN systems |-> IF s \in DOMAIN sigs THEN sigs[s] ELSE EmptySignature]

\* System::mEntities of every system after entitySignatureChanged(entity, signature).
entitySignatureChanged(systems, sigs, entity, signature) ==
  [s \in DOMAIN systems |->
     IF Matches(signature, signaturesAfterLookup(systems, sigs)[s])
     THEN systems[s] \cup {entity}
     ELSE systems[s] \ {entity}]

\* The entityRegistered / entityErased calls entitySignatureChanged makes.
signatureChangedNotifications(systems, sigs, entity, signature) ==
  { <<s, IF Matches(signature, signaturesAfterLookup(systems, sigs)[s])
         THEN "entityRegistered" ELSE "entityErased", entity>> : s \in DOMAIN systems }

\* entityDestroyed leaving the membership sets as they are.
systemsEntityDestroyed_Skip(systems, entity) == systems

\* SystemManager::entityDestroyed: erase from every system, no notification.
systemsEntityDestroyed(systems, entity) ==
  [s \in DOMAIN systems |-> systems[s] \ {entity}]

\* ---------------------------------------------------------------- EntityManager
\* EntityManager::getSignature: the values the read of mSignatures[entity] can
\* yield; for an out-of-range entity the read is past the end of the array.
getSignature(sigs, entity) ==
  IF entity \in InRange THEN {sigs[entity]} ELSE Signature

\* setSignature that stores nothing.
setSignature_Dropped(sigs, entity, signature) == sigs

\* EntityManager::setSignature: nothing is stored for an out-of-range entity.
setSignature(sigs, entity, signature) ==
  IF entity \in InRange THEN [sigs EXCEPT ![entity] = signature] ELSE sigs

\* Errors getSignature and setSignature log together for one entity.
rangeErrors(entity) == IF entity \in InRange THEN 0 ELSE 2

\* mSignatures[entity].reset() in EntityManager::destroyEntity.
resetSignature(sigs, entity) == [sigs EXCEPT ![entity] = EmptySignature]

\* mAvailableEntities.push(entity) in EntityManager::destroyEntity.
releaseId(queue, entity) == Append(queue, entity)

\* ---------------------------------------------------------------- Init
Init ==
  /\ mAvailableEntities = [i \in 1..MAX_ENTITIES |-> i - 1]
  /\ mExistingEntities = {}
  /\ mSignatures = [e \in InRange |-> EmptySignature]
  /\ mLivingEntityCount = 0
  /\ mComponentTypes = EmptyMap
  /\ mComponentArrays = EmptyMap
  /\ mNextComponentType = 0
  /\ mSystems = EmptyMap
  /\ mSystemSignatures = EmptyMap
  /\ resourceArrays = EmptyMap
  /\ call = Call("init", "", NoEntity, NoValue, EmptySignature)
  /\ outcome = "ok"
  /\ ret = NoRet
  /\ errors = 0
  /\ notified = {}
  /\ given = EmptyMap
  /\ callsLeft = MaxCalls

\* A call that ends in assert(false) or an uncaught exception: the process is
\* gone, the managers are left as they were when it stopped.
Fatal(c, nerr) ==
  /\ call' = c
  /\ outcome' = "fatal"
  /\ ret' = NoRet
  /\ errors' = nerr
  /\ notified' = {}
  /\ callsLeft' = callsLeft - 1
  /\ UNCHANGED <<given, resourceArrays>>

\* A call left by a C++ exception (std::out_of_range of std::bitset::set): what
\* the call did before the throw stays, the caller may catch it and go on.
Throws(c, nerr) ==
  /\ call' = c
  /\ outcome' = "thrown"
  /\ ret' = NoRet
  /\ errors' = nerr
  /\ notified' = {}
  /\ callsLeft' = callsLeft - 1
  /\ UNCHANGED <<given, resourceArrays>>

Returns(c, r, nerr, notes) ==
  /\ call' = c
  /\ outcome' = "ok"
  /\ ret' = r
  /\ errors' = nerr
  /\ notified' = notes
  /\ callsLeft' = callsLeft - 1
  /\ UNCHANGED resourceArrays

\* The process may go down on an access past the end of mComponentArray.
MayCrash(outOfBounds) == IF outOfBounds THEN BOOLEAN ELSE {FALSE}

Crash(c, nerr) ==
  /\ call' = c
  /\ outcome' = "crash"
  /\ ret' = NoRet
  /\ errors' = nerr
  /\ notified' = {}
  /\ callsLeft' = callsLeft - 1
  /\ UNCHANGED <<emVars, cmVars, smVars, given, resourceArrays>>

\* ---------------------------------------------------------------- Coordinator
\* Coordinator::createEntity -> EntityManager::createEntity
createEntity ==
  /\ Running
  /\ LET c == Call("createEntity", "", NoEntity, NoValue, EmptySignature) IN
     IF Uint32GE(mLivingEntityCount, MAX_ENTITIES)
     THEN /\ Fatal(c, 1)
          /\ UNCHANGED <<emVars, cmVars, smVars>>
     ELSE IF mAvailableEntities = << >>
     THEN \* front() of an empty queue
          Crash(c, 0)
     ELSE LET id == Head(mAvailableEntities) IN
          /\ mAvailableEntities' = Tail(mAvailableEntities)
          /\ mLivingEntityCount' = mLivingEntityCount + 1
          /\ mExistingEntities' = mExistingEntities \cup {id}
          /\ Returns(c, {id}, 0, {})
          /\ UNCHANGED <<mSignatures, cmVars, smVars, given>>

\* Coordinator::destroyEntity: EntityManager::destroyEntity, then
\* ComponentManager::entityDestroyed, then SystemManager::entityDestroyed.
destroyEntity(e) ==
  /\ Running
  /\ LET c == Call("destroyEntity", "", e, NoValue, EmptySignature)
         outOfBounds == \E t \in DOMAIN mComponentArrays :
                           /\ e \in DOMAIN mComponentArrays[t].mEntityToIndexMap
                           /\ \/ (mComponentArrays[t].mSize - 1) \notin InRange
                              \/ mComponentArrays[t].mEntityToIndexMap[e] \notin InRange
     IN \E crashed \in MayCrash(outOfBounds),
           lastValue \in [DOMAIN mComponentArrays -> AnyValue] :
          /\ \A t \in DOMAIN mComponentArrays :
                lastValue[t] \in LastValues(mComponentArrays[t], e)
          /\ IF crashed
             THEN Crash(c, IF e \in InRange THEN 0 ELSE 1)
             ELSE /\ IF e \in InRange
                     THEN /\ mSignatures' = resetSignature(mSignatures, e)
                          /\ mExistingEntities' = mExistingEntities \ {e}
                          /\ mAvailableEntities' = releaseId(mAvailableEntities, e)
                          /\ mLivingEntityCount' = mLivingEntityCount - 1
                     ELSE UNCHANGED emVars
                  /\ mComponentArrays' =
                       [t \in DOMAIN mComponentArrays |->
                          arrayEntityDestroyed(mComponentArrays[t], e, lastValue[t])]
                  /\ mSystems' = systemsEntityDestroyed(mSystems, e)
                  /\ Returns(c, NoRet, IF e \in InRange THEN 0 ELSE 1, {})
                  /\ UNCHANGED <<mComponentTypes, mNextComponentType,
                                 mSystemSignatures, given>>

\* ++mNextComponentType skipped.
nextComponentType_Stuck(next) == next

\* ++mNextComponentType in ComponentManager::registerComponent.
nextComponentType(next) == next + 1

\* Coordinator::registerComponent -> ComponentManager::registerComponent
registerComponent(t) ==
  /\ Running
  /\ LET c == Call("registerComponent", t, NoEntity, NoValue, EmptySignature) IN
     IF t \in DOMAIN mComponentTypes
     THEN /\ Returns(c, NoRet, 1, {})
          /\ UNCHANGED <<emVars, cmVars, smVars, given>>
     ELSE /\ mComponentTypes' = Put(mComponentTypes, t, mNextComponentType)
          /\ mComponentArrays' = Put(mComponentArrays, t, NewComponentArray)
          /\ mNextComponentType' = nextComponentType(mNextComponentType)
          /\ Returns(c, NoRet, 0, {})
          /\ UNCHANGED <<emVars, smVars, given>>

\* Coordinator::addComponent: ComponentManager::addComponent (getComponentArray,
\* insertData), getSignature, signature.set, setSignature, entitySignatureChanged.
addComponent(t, e, v) ==
  /\ Running
  /\ LET c == Call("addComponent", t, e, v, EmptySignature) IN
     IF t \notin DOMAIN mComponentTypes
     THEN /\ Fatal(c, 1)
          /\ UNCHANGED <<emVars, cmVars, smVars>>
     ELSE LET a == mComponentArrays[t]
              type == mComponentTypes[t]
              nerr == insertDataErrors(a, e) + rangeErrors(e)
              outOfBounds == /\ e \notin DOMAIN a.mEntityToIndexMap
                             /\ a.mSize \notin InRange
          IN \E crashed \in MayCrash(outOfBounds), read \in getSignature(mSignatures, e) :
               IF crashed
               THEN Crash(c, 0)
               ELSE IF type >= MAX_COMPONENTS
               THEN \* std::bitset::set throws std::out_of_range after insertData
                    /\ mComponentArrays' = [mComponentArrays EXCEPT ![t] = insertData(a, e, v)]
                    /\ Throws(c, insertDataErrors(a, e) + (IF e \in InRange THEN 0 ELSE 1))
                    /\ UNCHANGED <<emVars, mComponentTypes, mNextComponentType, smVars>>
               ELSE LET signature == read \cup {type} IN
                    /\ mComponentArrays' = [mComponentArrays EXCEPT ![t] = insertData(a, e, v)]
                    /\ mSignatures' = setSignature(mSignatures, e, signature)
                    /\ mSystems' = entitySignatureChanged(mSystems, mSystemSignatures, e, signature)
                    /\ mSystemSignatures' = signaturesAfterLookup(mSystems, mSystemSignatures)
                    /\ Returns(c, NoRet, nerr,
                         signatureChangedNotifications(mSystems, mSystemSignatures, e, signature))
                    /\ UNCHANGED <<mAvailableEntities, mExistingEntities, mLivingEntityCount,
                                   mComponentTypes, mNextComponentType, given>>

\* Coordinator::removeComponent: ComponentManager::removeComponent (getComponentArray,
\* removeData), getSignature, signature.set(.., false), setSignature,
\* entitySignatureChanged.
removeComponent(t, e) ==
  /\ Running
  /\ LET c == Call("removeComponent", t, e, NoValue, EmptySignature) IN
     IF t \notin DOMAIN mComponentTypes
     THEN /\ Fatal(c, 1)
          /\ UNCHANGED <<emVars, cmVars, smVars>>
     ELSE LET a == mComponentArrays[t]
              type == mComponentTypes[t]
              nerr == removeDataErrors(a, e) + rangeErrors(e)
              outOfBounds == /\ e \in DOMAIN a.mEntityToIndexMap
                             /\ \/ (a.mSize - 1) \notin InRange
                                \/ a.mEntityToIndexMap[e] \notin InRange
          IN \E crashed \in MayCrash(outOfBounds), lastValue \in LastValues(a, e),
                read \in getSignature(mSignatures, e) :
               IF crashed
               THEN Crash(c, 0)
               ELSE IF type >= MAX_COMPONENTS
               THEN /\ mComponentArrays' =
                         [mComponentArrays EXCEPT ![t] = removeData(a, e, lastValue)]
                    /\ Throws(c, removeDataErrors(a, e) + (IF e \in InRange THEN 0 ELSE 1))
                    /\ UNCHANGED <<emVars, mComponentTypes, mNextComponentType, smVars>>
               ELSE LET signature == read \ {type} IN
                    /\ mComponentArrays' =
                         [mComponentArrays EXCEPT ![t] = removeData(a, e, lastValue)]
                    /\ mSignatures' = setSignature(mSignatures, e, signature)
                    /\ mSystems' = entitySignatureChanged(mSystems, mSystemSignatures, e, signature)
                    /\ mSystemSignatures' = signaturesAfterLookup(mSystems, mSystemSignatures)
                    /\ Returns(c, NoRet, nerr,
                         signatureChangedNotifications(mSystems, mSystemSignatures, e, signature))
                    /\ UNCHANGED <<mAvailableEntities, mExistingEntities, mLivingEntityCount,
                                   mComponentTypes, mNextComponentType, given>>

\* Coordinator::getComponent -> ComponentManager::getComponent -> getData
getComponent(t, e) ==
  /\ Running
  /\ LET c == Call("getComponent", t, e, NoValue, EmptySignature) IN
     IF t \notin DOMAIN mComponentTypes
     THEN /\ Fatal(c, 1)
          /\ UNCHANGED <<emVars, cmVars, smVars>>
     ELSE LET a == mComponentArrays[t] IN
          IF e \notin DOMAIN a.mEntityToIndexMap
          THEN /\ Fatal(c, 1)
               /\ UNCHANGED <<emVars, cmVars, smVars>>
          ELSE \E crashed \in MayCrash(a.mEntityToIndexMap[e] \notin InRange),
                  value \in ReadSlot(a, a.mEntityToIndexMap[e]) :
                 IF crashed
                 THEN Crash(c, 0)
                 ELSE /\ Returns(c, {value}, 0, {})
                      /\ UNCHANGED <<emVars, cmVars, smVars, given>>

\* Coordinator::registerSystem -> SystemManager::registerSystem
registerSystem(s) ==
  /\ Running
  /\ LET c == Call("registerSystem", s, NoEntity, NoValue, EmptySignature) IN
     IF s \in DOMAIN mSystems
     THEN /\ Fatal(c, 1)
          /\ UNCHANGED <<emVars, cmVars, smVars>>
     ELSE /\ mSystems' = Put(mSystems, s, {})
          /\ Returns(c, NoRet, 0, {})
          /\ UNCHANGED <<emVars, cmVars, mSystemSignatures, given>>

\* mSignatures.insert({typeName, signature}) in SystemManager::setSignature:
\* insert leaves an entry that is already there as it is.
insertSignature(sigs, s, signature) ==
  IF s \in DOMAIN sigs THEN sigs ELSE Put(sigs, s, signature)

\* Coordinator::setSystemSignature -> SystemManager::setSignature
setSystemSignature(s, signature) ==
  /\ Running
  /\ LET c == Call("setSystemSignature", s, NoEntity, NoValue, signature) IN
     IF s \notin DOMAIN mSystems
     THEN /\ Returns(c, NoRet, 1, {})
          /\ UNCHANGED <<emVars, cmVars, smVars, given>>
     ELSE /\ mSystemSignatures' = insertSignature(mSystemSignatures, s, signature)
          /\ given' = Put(given, s, signature)
          /\ Returns(c, NoRet, 0, {})
          /\ UNCHANGED <<emVars, cmVars, mSystems>>

\* ---------------------------------------------------------------- specification
Next ==
  \/ createEntity
  \/ \E e \in EntityArgs : destroyEntity(e)
  \/ \E t \in TypeNames : registerComponent(t)
  \/ \E t \in TypeNames, e \in EntityArgs, v \in ComponentValues : addComponent(t, e, v)
  \/ \E t \in TypeNames, e \in EntityArgs : removeComponent(t, e)
  \/ \E t \in TypeNames, e \in EntityArgs : getComponent(t, e)
  \/ \E s \in SystemNames : registerSystem(s)
  \/ \E s \in SystemNames, signature \in Signature : setSystemSignature(s, signature)

Spec == Init /\ [][Next]_vars

\* The same program making one more call.
LongInit ==
  /\ mAvailableEntities = [i \in 1..MAX_ENTITIES |-> i - 1]
  /\ mExistingEntities = {}
  /\ mSignatures = [e \in InRange |-> EmptySignature]
  /\ mLivingEntityCount = 0
  /\ mComponentTypes = EmptyMap
  /\ mComponentArrays = EmptyMap
  /\ mNextComponentType = 0
  /\ mSystems = EmptyMap
  /\ mSystemSignatures = EmptyMap
  /\ resourceArrays = EmptyMap
  /\ call = Call("init", "", NoEntity, NoValue, EmptySignature)
  /\ outcome = "ok"
  /\ ret = NoRet
  /\ errors = 0
  /\ notified = {}
  /\ given = EmptyMap
  /\ callsLeft = LongCalls

LongSpec == LongInit /\ [][Next]_vars

\* ------------------------------------------------- Component type registration
\* A program that has more component types than MAX_COMPONENTS.
RegTypeNames == TypeNames \cup {"Health"}

\* Coordinator::getComponentType -> ComponentManager::getComponentType
getComponentType(t) ==
  /\ Running
  /\ LET c == Call("getComponentType", t, NoEntity, NoValue, EmptySignature) IN
     IF t \notin DOMAIN mComponentTypes
     THEN /\ Fatal(c, 1)
          /\ UNCHANGED <<emVars, cmVars, smVars>>
     ELSE /\ Returns(c, {mComponentTypes[t]}, 0, {})
          /\ UNCHANGED <<emVars, cmVars, smVars, given>>

\* The calls of a program that registers and uses component types, with entity
\* ids below MAX_ENTITIES and no systems.
RegNext ==
  \/ \E t \in RegTypeNames : registerComponent(t)
  \/ \E t \in RegTypeNames : getComponentType(t)
  \/ \E t \in RegTypeNames, e \in InRange, v \in ComponentValues : addComponent(t, e, v)
  \/ \E t \in RegTypeNames, e \in InRange : removeComponent(t, e)
  \/ \E t \in RegTypeNames, e \in InRange : getComponent(t, e)

RegSpec == Init /\ [][RegNext]_vars

\* ------------------------------------------------------------ ResourceManager
\* absl::string_view view = key on the const char* every overload ends in
\* (std::string keys go through key.c_str()): the characters before the first NUL.
RECURSIVE view(_)
view(key) ==
  IF key = << >> \/ Head(key) = NUL THEN << >> ELSE <<Head(key)>> \o view(Tail(key))

\* ResourceArray::getResource: data[view] inserts a value-initialised T* for a
\* key that is not mapped.
arrayGetResource(data, key) ==
  IF view(key) \in DOMAIN data THEN data ELSE Put(data, view(key), nullptr)

\* ResourceArray::setResource
arraySetResource(data, key, value) == Put(data, view(key), value)

\* ResourceArray::deleteResource
arrayDeleteResource(data, key) == Erase(data, view(key))

\* ResourceArray::deleteAll
arrayDeleteAll(data) == EmptyMap

\* ResourceManager::RecursiveDelete<First, Args...>::deleteAll: clears the arrays
\* of the listed types in order, getResourceArray stops at an unregistered type.
RECURSIVE RecursiveDelete(_, _)
RecursiveDelete(arrays, types) ==
  IF types = << >> \/ Head(types) \notin DOMAIN arrays
  THEN arrays
  ELSE RecursiveDelete([arrays EXCEPT ![Head(types)] = arrayDeleteAll(@)], Tail(types))

\* The template argument lists a caller gives deleteAllResources.
TypeLists ==
  {<< >>} \cup {<<t>> : t \in ResourceTypes} \cup {<<t, u>> : t, u \in ResourceTypes}

ResCall(name, types, key, value) ==
  [name |-> name, types |-> types, key |-> key, value |-> value]

\* The end of a resource call: the other managers are not touched.
ResEnds(c, how, r, nerr) ==
  /\ call' = c
  /\ outcome' = how
  /\ ret' = r
  /\ errors' = nerr
  /\ notified' = {}
  /\ callsLeft' = callsLeft - 1
  /\ UNCHANGED <<emVars, cmVars, smVars, given>>

\* Coordinator::registerResourceType -> ResourceManager::registerResourceType
registerResourceType(t) ==
  /\ Running
  /\ LET c == ResCall("registerResourceType", <<t>>, << >>, nullptr) IN
     IF t \in DOMAIN resourceArrays
     THEN /\ ResEnds(c, "ok", NoRet, 1)
          /\ UNCHANGED resourceArrays
     ELSE /\ resourceArrays' = Put(resourceArrays, t, EmptyMap)
          /\ ResEnds(c, "ok", NoRet, 0)

\* Coordinator::getResource -> ResourceManager::getResource -> getResourceArray,
\* ResourceArray::getResource
getResource(t, key) ==
  /\ Running
  /\ LET c == ResCall("getResource", <<t>>, key, nullptr) IN
     IF t \notin DOMAIN resourceArrays
     THEN /\ ResEnds(c, "fatal", NoRet, 1)
          /\ UNCHANGED resourceArrays
     ELSE LET data == arrayGetResource(resourceArrays[t], key) IN
          /\ resourceArrays' = [resourceArrays EXCEPT ![t] = data]
          /\ ResEnds(c, "ok", {data[view(key)]}, 0)

\* Coordinator::setResource -> ResourceManager::setResource
setResource(t, key, value) ==
  /\ Running
  /\ LET c == ResCall("setResource", <<t>>, key, value) IN
     IF t \notin DOMAIN resourceArrays
     THEN /\ ResEnds(c, "fatal", NoRet, 1)
          /\ UNCHANGED resourceArrays
     ELSE /\ resourceArrays' =
               [resourceArrays EXCEPT ![t] = arraySetResource(@, key, value)]
          /\ ResEnds(c, "ok", NoRet, 0)

\* Coordinator::deleteResource -> ResourceManager::deleteResource
deleteResource(t, key) ==
  /\ Running
  /\ LET c == ResCall("deleteResource", <<t>>, key, nullptr) IN
     IF t \notin DOMAIN resourceArrays
     THEN /\ ResEnds(c, "fatal", NoRet, 1)
          /\ UNCHANGED resourceArrays
     ELSE /\ resourceArrays' =
               [resourceArrays EXCEPT ![t] = arrayDeleteResource(@, key)]
          /\ ResEnds(c, "ok", NoRet, 0)

\* Coordinator::deleteAllResources -> ResourceManager::deleteAll<Args...>
deleteAllResources(types) ==
  /\ Running
  /\ LET c == ResCall("deleteAllResources", types, << >>, nullptr) IN
     /\ resourceArrays' = RecursiveDelete(resourceArrays, types)
     /\ IF \E i \in DOMAIN types : types[i] \notin DOMAIN resourceArrays
        THEN ResEnds(c, "fatal", NoRet, 1)
        ELSE ResEnds(c, "ok", NoRet, 0)

\* The calls of a program that uses the resource store.
ResNext ==
  \/ \E t \in ResourceTypes : registerResourceType(t)
  \/ \E t \in ResourceTypes, key \in Keys : getResource(t, key)
  \/ \E t \in ResourceTypes, key \in Keys, value \in Pointers : setResource(t, key, value)
  \/ \E t \in ResourceTypes, key \in Keys : deleteResource(t, key)
  \/ \E types \in TypeLists : deleteAllResources(types)

ResSpec == Init /\ [][ResNext]_vars

\* ---------------------------------------------------------------- properties
\* The last call was `name` and it returned.
Returned(name) == call.name = name /\ outcome = "ok"

\* The ComponentArray of t maps e (the entity holds a t).
Holds(t, e) ==
  /\ t \in DOMAIN mComponentArrays
  /\ e \in DOMAIN mComponentArrays[t].mEntityToIndexMap

\* The values getComponent<t>(e) can return when e holds a t.
GetValues(t, e) ==
  ReadSlot(mComponentArrays[t], mComponentArrays[t].mEntityToIndexMap[e])

\* The ids in the available pool.
Available == {mAvailableEntities[i] : i \in DOMAIN mAvailableEntities}

MutatingCalls == {"createEntity", "destroyEntity", "addComponent", "removeComponent",
                  "registerSystem", "setSystemSignature"}

\* C1: after every mutating Coordinator call returns, each system whose required
\* signature S has been set holds exactly the live entities whose signature is a
\* superset of S.
C1_MembershipExact ==
  (outcome = "ok" /\ call.name \in MutatingCalls) =>
    \A s \in DOMAIN given :
      mSystems[s] = {e \in mExistingEntities : given[s] \subseteq mSignatures[e]}

\* C2: createEntity never returns an id that is live when it is called: an id
\* an earlier createEntity returned and no destroyEntity has taken since.
C2_CreateReturnsFreshId ==
  [][(call'.name = "createEntity" /\ outcome' = "ok")
       => ret' \cap mExistingEntities = {}]_vars

C4_RemoveThenGetFatal ==
  [][\A t \in TypeNames, e \in EntityArgs :
       /\ (call' = Call("removeComponent", t, e, NoValue, EmptySignature) /\ outcome' = "ok")
            => ( /\ ~Holds(t, e)
                 /\ e \in InRange => mComponentTypes[t] \notin mSignatures[e] )'
       /\ (~Holds(t, e) /\ Holds(t, e)')
            => (call'.name = "addComponent" /\ call'.t = t /\ call'.e = e)
       /\ (call' = Call("getComponent", t, e, NoValue, EmptySignature) /\ ~Holds(t, e))
            => (outcome' = "fatal" /\ ret' = NoRet)]_vars

\* C4 witness: getComponent ended fatally on a registered type whose array held
\* a value before (slot 0 is written) and maps nothing now.
C4_Witness ==
  /\ call.name = "getComponent"
  /\ outcome = "fatal"
  /\ call.t \in DOMAIN mComponentArrays
  /\ call.e \in InRange
  /\ mComponentArrays[call.t].mSize = 0
  /\ mComponentArrays[call.t].mComponentArray[0] # NoValue
  /\ mComponentTypes[call.t] \notin mSignatures[call.e]

\* C5: in every ComponentArray mSize is the number of mapped entities, the indices
\* in use are exactly 0..mSize-1, no two entities share one, and mIndexToEntityMap
\* is the inverse of mEntityToIndexMap.
C5_Density ==
  \A t \in DOMAIN mComponentArrays :
    LET a == mComponentArrays[t]
        e2i == a.mEntityToIndexMap
        i2e == a.mIndexToEntityMap
    IN /\ a.mSize = Cardinality(DOMAIN e2i)
       /\ {e2i[e] : e \in DOMAIN e2i} = 0..(a.mSize - 1)
       /\ DOMAIN i2e = 0..(a.mSize - 1)
       /\ \A e \in DOMAIN e2i : i2e[e2i[e]] = e
       /\ \A i \in DOMAIN i2e : e2i[i2e[i]] = i

\* C5 witness: a removal that moved the last element into the freed slot 0.
C5_Witness ==
  /\ Returned("removeComponent")
  /\ errors = 0
  /\ mComponentArrays[call.t].mSize = 1
  /\ mComponentArrays[call.t].mComponentArray[0] = 2
  /\ mComponentArrays[call.t].mComponentArray[1] = 2
  /\ call.e = 0
  /\ mComponentArrays[call.t].mEntityToIndexMap[1] = 0

\* C6: after addComponent or removeComponent returns for a live entity e, e is a
\* member of a system exactly when its stored signature contains every bit of the
\* signature last given to setSystemSignature for that system.
C6_MembershipFollowsGiven ==
  (call.name \in {"addComponent", "removeComponent"} /\ outcome = "ok"
     /\ call.e \in mExistingEntities) =>
    \A s \in DOMAIN given :
      (call.e \in mSystems[s]) <=> (given[s] \subseteq mSignatures[call.e])

\* C7: after setSystemSignature<T>(sig) returns for a registered system T, the
\* signature entitySignatureChanged compares against for T is sig.
C7_SetSignatureTakesEffect ==
  (Returned("setSystemSignature") /\ call.t \in DOMAIN mSystems) =>
    signaturesAfterLookup(mSystems, mSystemSignatures)[call.t] = call.s

\* C8: after destroyEntity(e) returns for an in-range e, no system has e as a
\* member, no ComponentArray maps e, the stored signature of e is empty, e is in
\* the available pool, and no entityErased notification was delivered.
C8_DestroyClears ==
  (Returned("destroyEntity") /\ call.e \in InRange) =>
    /\ \A s \in DOMAIN mSystems : call.e \notin mSystems[s]
    /\ \A t \in DOMAIN mComponentArrays : ~Holds(t, call.e)
    /\ mSignatures[call.e] = EmptySignature
    /\ call.e \in Available
    /\ \A n \in notified : n[2] # "entityErased"

\* C8 witness: the destroyed entity was the one entry of an array and systems
\* had been evaluated against it.
C8_Witness ==
  /\ Returned("destroyEntity")
  /\ call.e \in InRange
  /\ DOMAIN mSystemSignatures = SystemNames
  /\ \E t \in DOMAIN mComponentArrays :
       /\ mComponentArrays[t].mSize = 0
       /\ mComponentArrays[t].mComponentArray[0] # NoValue

\* C9: the id createEntity returns is clean: its stored signature is empty, no
\* ComponentArray maps it and no system has it as a member.
C9_CreatedIdIsClean ==
  Returned("createEntity") =>
    \A id \in ret :
      /\ mSignatures[id] = EmptySignature
      /\ \A t \in DOMAIN mComponentArrays : ~Holds(t, id)
      /\ \A s \in DOMAIN mSystems : id \notin mSystems[s]

\* C10: addComponent<T>(e, v) for an entity e that already holds a T leaves the
\* stored value, T's array (size and both maps) and the signature of e as they
\* were, and logs exactly one error.
C10_DuplicateAddRejected ==
  [][\A t \in TypeNames, e \in InRange, v \in ComponentValues :
       ( /\ call' = Call("addComponent", t, e, v, EmptySignature)
         /\ outcome' = "ok"
         /\ Holds(t, e) )
       => /\ GetValues(t, e)' = GetValues(t, e)
          /\ mComponentArrays'[t] = mComponentArrays[t]
          /\ mSignatures'[e] = mSignatures[e]
          /\ errors' = 1]_vars

\* C10 witness: a second add with another value returned, the first value stays.
C10_Witness ==
  /\ Returned("addComponent")
  /\ call.e \in InRange
  /\ errors = 1
  /\ call.v = 2
  /\ GetValues(call.t, call.e) = {1}

\* C11: removeComponent<T>(e) for an entity e that holds no T changes no
\* component array, no signature and no membership set, and delivers no
\* entityRegistered or entityErased notification.
C11_RemoveAbsentIsNoOp ==
  [][\A t \in TypeNames, e \in InRange :
       ( /\ call' = Call("removeComponent", t, e, NoValue, EmptySignature)
         /\ outcome' = "ok"
         /\ ~Holds(t, e) )
       => /\ mComponentArrays' = mComponentArrays
          /\ mSignatures' = mSignatures
          /\ mSystems' = mSystems
          /\ notified' = {}]_vars

\* C12: createEntity ends in the fatal outcome exactly when the available pool
\* is empty; whenever an id is available it returns one.
C12_FatalIffPoolEmpty ==
  [][(call'.name = "createEntity")
       => /\ (outcome' = "fatal") <=> (mAvailableEntities = << >>)
          /\ (mAvailableEntities # << >>) => (outcome' = "ok" /\ ret' # NoRet)]_vars

\* C13: ids are reused in FIFO order. createEntity called with a non-empty pool
\* returns the id at the head of the pool and moves every other pool entry one
\* place forward; destroyEntity appends its id at the tail; no other call
\* touches the pool. So a destroyed id with k entries ahead of it is handed out
\* by the (k+1)-th createEntity after its destruction, and of two destroyed ids
\* the one destroyed first is handed out first.
C13_FifoReuse ==
  [][/\ (call'.name = "createEntity" /\ mAvailableEntities # << >>)
          => /\ outcome' = "ok"
             /\ ret' = {Head(mAvailableEntities)}
             /\ mAvailableEntities' = Tail(mAvailableEntities)
     /\ \A e \in InRange :
          (call' = Call("destroyEntity", "", e, NoValue, EmptySignature) /\ outcome' = "ok")
            => /\ Len(mAvailableEntities') = Len(mAvailableEntities) + 1
               /\ mAvailableEntities'[Len(mAvailableEntities')] = e
               /\ SubSeq(mAvailableEntities', 1, Len(mAvailableEntities)) = mAvailableEntities
     /\ (mAvailableEntities' # mAvailableEntities)
          => call'.name \in {"createEntity", "destroyEntity"}]_vars

\* C14: the size of a ComponentArray never exceeds MAX_ENTITIES, so every slot
\* written is a slot of mComponentArray.
C14_SizeWithinCapacity ==
  \A t \in DOMAIN mComponentArrays :
    /\ mComponentArrays[t].mSize <= MAX_ENTITIES
    /\ \A i \in DOMAIN mComponentArrays[t].mIndexToEntityMap : i \in InRange

\* C15: a call delivers entityRegistered(e) to a system only when it moves e
\* from absent to member of that system.
C15_RegisteredOnlyOnEntry ==
  [][\A s \in SystemNames, e \in EntityArgs :
       (<<s, "entityRegistered", e>> \in notified')
         => (e \notin mSystems[s] /\ e \in mSystems'[s])]_vars

\* What getResource<T>(key) returns for a registered resource type.
Stored(t, key) ==
  IF view(key) \in DOMAIN resourceArrays[t]
  THEN resourceArrays[t][view(key)]
  ELSE nullptr

\* The last call was a setResource or deleteResource of this type and key, or a
\* deleteAllResources that lists the type.
Touched(t, key) ==
  \/ call.name \in {"setResource", "deleteResource"} /\ call.types = <<t>> /\ call.key = key
  \/ call.name = "deleteAllResources" /\ \E i \in DOMAIN call.types : call.types[i] = t

\* C18: resource store round trip, for every registered resource type T and key
\* k. After setResource<T>(k, p), getResource<T>(k) returns p, and keeps doing
\* so over every call that is not a setResource<T>(k, _), deleteResource<T>(k)
\* or deleteAllResources listing T; after deleteResource<T>(k) or a
\* deleteAllResources listing T it returns nullptr, without error; getResource
\* returns what is stored. A call changes what is stored only for its own type
\* and key (deleteAllResources: its own types).
C18_ResourceRoundTrip ==
  [][\A t \in DOMAIN resourceArrays, key \in Keys :
       /\ t \in DOMAIN resourceArrays'
       /\ \A value \in Pointers :
            (call' = ResCall("setResource", <<t>>, key, value))
              => (outcome' = "ok" /\ Stored(t, key)' = value)
       /\ (call' = ResCall("getResource", <<t>>, key, nullptr))
            => /\ outcome' = "ok" /\ errors' = 0
               /\ ret' = {Stored(t, key)}
               /\ Stored(t, key)' = Stored(t, key)
       /\ (call' = ResCall("deleteResource", <<t>>, key, nullptr))
            => (outcome' = "ok" /\ errors' = 0 /\ Stored(t, key)' = nullptr)
       /\ (call'.name = "deleteAllResources" /\ outcome' = "ok" /\ Touched(t, key)')
            => Stored(t, key)' = nullptr
       /\ ~Touched(t, key)' => Stored(t, key)' = Stored(t, key)]_vars

\* C19: removeData(e) on an array that maps e leaves every other mapped entity
\* mapped, and getData of it returns the value it returned before.
C19_SwapRemovePreservesOthers ==
  [][\A t \in TypeNames, e \in InRange, other \in InRange :
       ( /\ other # e
         /\ call' = Call("removeComponent", t, e, NoValue, EmptySignature)
         /\ outcome' = "ok"
         /\ Holds(t, e)
         /\ Holds(t, other) )
       => /\ Holds(t, other)'
          /\ GetValues(t, other)' = GetValues(t, other)]_vars

\* C20: for every id e below MAX_ENTITIES and every registered component type T,
\* the bit of T is set in the stored signature of e exactly when T's array maps e.
C20_SignatureMatchesStorage ==
  \A t \in DOMAIN mComponentTypes, e \in InRange :
    (mComponentTypes[t] \in mSignatures[e]) <=> Holds(t, e)

\* C16: registerComponent hands out ids in registration order from 0. The types
\* registered so far carry the ids 0 .. n-1, each once; a call never changes the
\* id of a registered type; registering a new type gives it the id n and changes
\* nothing else; registering a registered type changes no id and leaves the next
\* id as it was; getComponentType returns the id assigned.
C16_IdsInRegistrationOrder ==
  [][/\ \A t \in DOMAIN mComponentTypes :
          t \in DOMAIN mComponentTypes' /\ mComponentTypes'[t] = mComponentTypes[t]
     /\ \A t \in RegTypeNames :
          (call' = Call("registerComponent", t, NoEntity, NoValue, EmptySignature))
            => IF t \in DOMAIN mComponentTypes
               THEN /\ mComponentTypes' = mComponentTypes
                    /\ mNextComponentType' = mNextComponentType
               ELSE /\ DOMAIN mComponentTypes' = DOMAIN mComponentTypes \cup {t}
                    /\ mComponentTypes'[t] = Cardinality(DOMAIN mComponentTypes)
     /\ \A t \in RegTypeNames :
          (call' = Call("getComponentType", t, NoEntity, NoValue, EmptySignature)
             /\ outcome' = "ok")
            => (t \in DOMAIN mComponentTypes /\ ret' = {mComponentTypes[t]})
     /\ {mComponentTypes'[t] : t \in DOMAIN mComponentTypes'}
          = 0..(Cardinality(DOMAIN mComponentTypes') - 1)
     /\ mNextComponentType' = Cardinality(DOMAIN mComponentTypes')]_vars

\* C16 witness: the types were registered in the order Health, Position,
\* Velocity and a registerComponent call for a registered type was rejected
\* with the next id still 3.
C16_Witness ==
  /\ Returned("registerComponent")
  /\ errors = 1
  /\ DOMAIN mComponentTypes = RegTypeNames
  /\ mComponentTypes["Health"] = 0
  /\ mComponentTypes["Position"] = 1
  /\ mComponentTypes["Velocity"] = 2
  /\ mNextComponentType = Cardinality(RegTypeNames)

\* C17: registering a new component type when MAX_COMPONENTS types are
\* registered ends in the fatal outcome, so every id assigned is below
\* MAX_COMPONENTS.
C17_TooManyTypesIsFatal ==
  [][/\ \A t \in RegTypeNames :
          ( /\ call' = Call("registerComponent", t, NoEntity, NoValue, EmptySignature)
            /\ t \notin DOMAIN mComponentTypes
            /\ Cardinality(DOMAIN mComponentTypes) >= MAX_COMPONENTS )
          => outcome' = "fatal"
     /\ \A t \in DOMAIN mComponentTypes' : mComponentTypes'[t] < MAX_COMPONENTS]_vars

====
